---- MODULE Spec2Model ----
(***************************************************************************)
(* biotite.sequence.align.SubstitutionMatrix                               *)
(* (src/src/biotite/sequence/align/matrix.py).                             *)
(*                                                                         *)
(* Integers.  A Python int or a 64-bit array cell v is the record          *)
(* [hi, lo] with v = hi * 2^32 + lo and lo in the signed 32-bit range, so  *)
(* that v is representable as np.int32 iff hi = 0, and the C cast to       *)
(* np.int32 (two's complement wrap-around) is [hi |-> 0, lo |-> v.lo].     *)
(*                                                                         *)
(* Arrays.  An ndarray is a record [base, dtype, shape, data, writeable]:  *)
(* base names the memory the array owns or views, data is the sequence of  *)
(* its rows.  Two arrays with the same base share memory.                  *)
(*                                                                         *)
(* Text.  A str is a sequence of one-character strings; a symbol of an     *)
(* alphabet is a str.                                                      *)
(***************************************************************************)
EXTENDS Integers, Sequences, FiniteSets, TLC

VARIABLES
    numpy,       \* the major version of the NumPy the process runs on
    alphabet1,   \* the caller's first alphabet
    alphabet2,   \* the caller's second alphabet
    table,       \* the caller's ndarray of scores
    M,           \* the outcome of the last construction by the caller
    Mt,          \* the outcome of M.transpose()
    Mtt,         \* the outcome of M.transpose().transpose()
    P,           \* the outcome of M.as_positional(sequence1, sequence2)
    ret,         \* the outcome of the caller's last query or write
    writes,      \* the number of writes the caller has made to arrays
    source,      \* the lines of tokens of a text written by hand
    text,        \* the text str(M), or the text written by hand
    parsed,      \* the outcome of dict_from_str(text)
    R,           \* the outcome of the construction from the parsed map
    cache,       \* the dictionaries of functools.cache: call key -> cached result
    pc,          \* per thread: the call of a standard accessor it is inside
    constructions, \* per call key: the number of runs of the accessor's body
    returned,    \* per call key: the instances the accessor has returned
    calls        \* the number of calls of standard accessors made so far

callerVars == <<numpy, alphabet1, alphabet2>>

codecVars == <<source, text, parsed, R>>

cacheVars == <<cache, pc, constructions, returned, calls>>

vars == <<numpy, alphabet1, alphabet2, table, M, Mt, Mtt, P, ret, writes,
          source, text, parsed, R, cache, pc, constructions, returned, calls>>

(***************************************************************************)
(* Bounds of the model.                                                    *)
(***************************************************************************)
MaxAlphLen == 2

(***************************************************************************)
(* Integers.                                                               *)
(***************************************************************************)
INT32_MAX == 2147483647

INT32_MIN == (-2147483647) - 1

PyInt(hi, lo) == [hi |-> hi, lo |-> lo]

int32(x) == PyInt(0, x)

Representable32(v) == v.hi = 0

Wrap32(v) == PyInt(0, v.lo)

None == [none |-> TRUE]

Ok(v) == [ok |-> TRUE, val |-> v]

Raise(e) == [ok |-> FALSE, err |-> e]

Min(a, b) == IF a < b THEN a ELSE b

(***************************************************************************)
(* Alphabet (external collaborator): an ordered sequence of distinct       *)
(* symbols; code i is the symbol at position i, 0-based.                   *)
(***************************************************************************)
len(alphabet) == Len(alphabet)

decode(alphabet, code) == alphabet[code + 1]

Contains(alphabet, symbol) == \E k \in 1..Len(alphabet) : alphabet[k] = symbol

encode(alphabet, symbol) == CHOOSE c \in 0..(Len(alphabet) - 1) : alphabet[c + 1] = symbol

AlphabetEq(a, b) == a = b

(***************************************************************************)
(* numpy.                                                                  *)
(***************************************************************************)
ndarray(base, dtype, m, n, data) ==
    [base |-> base, dtype |-> dtype, shape |-> <<m, n>>, data |-> data, writeable |-> TRUE]

Cell(arr, i, j) == arr.data[i + 1][j + 1]

np_zeros(base, m, n) ==
    ndarray(base, "int32", m, n, [i \in 1..m |-> [j \in 1..n |-> int32(0)]])

np_astype_int32(arr, base) ==
    ndarray(base, "int32", arr.shape[1], arr.shape[2],
            [i \in 1..arr.shape[1] |-> [j \in 1..arr.shape[2] |-> Wrap32(arr.data[i][j])]])

np_transpose(arr) ==
    [arr EXCEPT !.shape = <<arr.shape[2], arr.shape[1]>>,
                !.data = [j \in 1..arr.shape[2] |-> [i \in 1..arr.shape[1] |-> arr.data[i][j]]]]

np_any_eq(arr, x) ==
    \E i \in 1..arr.shape[1] : \E j \in 1..arr.shape[2] : arr.data[i][j] = int32(x)

np_array_equal(a, b) == a.shape = b.shape /\ a.data = b.data

HasSentinel(arr) == np_any_eq(arr, INT32_MAX) \/ np_any_eq(arr, INT32_MIN)

issubdtype_integer(dtype) == dtype \in {"int32", "int64"}

\* as setflags, but the array stays as writeable as it was
setflags_kept(arr, write) == arr

setflags(arr, write) == [arr EXCEPT !.writeable = write]

(***************************************************************************)
(* SubstitutionMatrix._fill_with_matrix_dict: the cells are filled in      *)
(* row-major order; the first missing key raises KeyError, the first value *)
(* that np.int32 cannot hold raises OverflowError (NumPy >= 2) or is       *)
(* wrapped (NumPy < 2, out_of_bound = "wrap").                             *)
(***************************************************************************)
RECURSIVE FillFrom(_, _, _, _, _, _)
FillFrom(alph1, alph2, matrix_dict, out_of_bound, matrix, k) ==
    IF k = len(alph1) * len(alph2) THEN Ok(matrix)
    ELSE LET i == k \div len(alph2)
             j == k % len(alph2)
             sym1 == decode(alph1, i)
             sym2 == decode(alph2, j)
         IN  IF <<sym1, sym2>> \notin DOMAIN matrix_dict THEN Raise("KeyError")
             ELSE LET v == matrix_dict[<<sym1, sym2>>]
                  IN  IF ~Representable32(v) /\ out_of_bound = "raise"
                      THEN Raise("OverflowError")
                      ELSE FillFrom(alph1, alph2, matrix_dict, out_of_bound,
                                    [matrix EXCEPT !.data[i + 1][j + 1] = Wrap32(v)], k + 1)

\* as _fill_with_matrix_dict, but a missing key leaves the 0 of np.zeros
RECURSIVE FillFromGet(_, _, _, _, _, _)
FillFromGet(alph1, alph2, matrix_dict, out_of_bound, matrix, k) ==
    IF k = len(alph1) * len(alph2) THEN Ok(matrix)
    ELSE LET i == k \div len(alph2)
             j == k % len(alph2)
             key == <<decode(alph1, i), decode(alph2, j)>>
             v == IF key \in DOMAIN matrix_dict THEN matrix_dict[key] ELSE int32(0)
         IN  IF ~Representable32(v) /\ out_of_bound = "raise"
             THEN Raise("OverflowError")
             ELSE FillFromGet(alph1, alph2, matrix_dict, out_of_bound,
                              [matrix EXCEPT !.data[i + 1][j + 1] = Wrap32(v)], k + 1)

_fill_with_matrix_dict_get(alph1, alph2, matrix_dict, out_of_bound, base) ==
    FillFromGet(alph1, alph2, matrix_dict, out_of_bound,
                np_zeros(base, len(alph1), len(alph2)), 0)

_fill_with_matrix_dict(alph1, alph2, matrix_dict, out_of_bound, base) ==
    FillFrom(alph1, alph2, matrix_dict, out_of_bound,
             np_zeros(base, len(alph1), len(alph2)), 0)

(***************************************************************************)
(* str: the operations of Python's str that the codec uses.                *)
(***************************************************************************)
WHITESPACE == {" ", "\t", "\r", "\n"}

DIGITS == <<"0", "1", "2", "3", "4", "5", "6", "7", "8", "9">>

IsDigit(c) == \E d \in 1..10 : DIGITS[d] = c

DigitValue(c) == (CHOOSE d \in 1..10 : DIGITS[d] = c) - 1

\* str.split(sep): the pieces between the occurrences of sep
RECURSIVE SplitAt(_, _, _)
SplitAt(string, sep, piece) ==
    IF string = <<>> THEN <<piece>>
    ELSE IF Head(string) = sep THEN <<piece>> \o SplitAt(Tail(string), sep, <<>>)
    ELSE SplitAt(Tail(string), sep, Append(piece, Head(string)))

str_split(string, sep) == SplitAt(string, sep, <<>>)

RECURSIVE lstrip(_)
lstrip(string) ==
    IF string # <<>> /\ Head(string) \in WHITESPACE THEN lstrip(Tail(string)) ELSE string

RECURSIVE rstrip(_)
rstrip(string) ==
    IF string # <<>> /\ string[Len(string)] \in WHITESPACE
    THEN rstrip(SubSeq(string, 1, Len(string) - 1)) ELSE string

str_strip(string) == rstrip(lstrip(string))

\* str.split(): the maximal runs of non-whitespace characters
RECURSIVE SplitWs(_, _)
SplitWs(string, token) ==
    IF string = <<>> THEN (IF token = <<>> THEN <<>> ELSE <<token>>)
    ELSE IF Head(string) \in WHITESPACE
         THEN (IF token = <<>> THEN <<>> ELSE <<token>>) \o SplitWs(Tail(string), <<>>)
         ELSE SplitWs(Tail(string), Append(token, Head(string)))

str_split_ws(string) == SplitWs(string, <<>>)

\* format(s, ">w"): right-aligned in a field of at least w characters
RECURSIVE rjust(_, _)
rjust(string, width) ==
    IF Len(string) >= width THEN string ELSE rjust(<<" ">> \o string, width)

\* the decimal digits of a natural number
RECURSIVE NatDigits(_)
NatDigits(x) ==
    IF x < 10 THEN <<DIGITS[x + 1]>> ELSE Append(NatDigits(x \div 10), DIGITS[(x % 10) + 1])

\* format(int(x), "d") of an int32 cell; the last digit of a negative
\* number is split off before the sign is dropped, so that INT32_MIN is
\* formatted without leaving the 32-bit range
format_d(x) ==
    IF x >= 0 THEN NatDigits(x)
    ELSE LET d == (10 - (x % 10)) % 10
             rest == -((x + d) \div 10)
         IN  <<"-">> \o (IF rest = 0 THEN <<>> ELSE NatDigits(rest)) \o <<DIGITS[d + 1]>>

IsIntLiteral(token) ==
    LET body == IF token # <<>> /\ Head(token) \in {"+", "-"} THEN Tail(token) ELSE token
    IN  body # <<>> /\ \A k \in 1..Len(body) : IsDigit(body[k])

\* the value of a run of at most 9 digits
RECURSIVE SmallValue(_)
SmallValue(digits) ==
    IF digits = <<>> THEN 0
    ELSE 10 * SmallValue(SubSeq(digits, 1, Len(digits) - 1)) + DigitValue(digits[Len(digits)])

RECURSIVE StripZeros(_)
StripZeros(digits) ==
    IF Len(digits) > 1 /\ Head(digits) = "0" THEN StripZeros(Tail(digits)) ELSE digits

\* the value 10 * a + d of a run of at most 10 significant digits as
\* [hi, lo]: with K = (2^31 - 8) / 10 and a = K * t + s, the value is
\* t * 2^31 + (10 * s + d - 8 * t)
NatValue(digits) ==
    LET sig == StripZeros(digits)
        a == SmallValue(SubSeq(sig, 1, Len(sig) - 1))
        d == DigitValue(sig[Len(sig)])
        K == 214748364
        t0 == a \div K
        w0 == 10 * (a % K) + d - 8 * t0
        t == IF w0 < 0 THEN t0 - 1 ELSE t0
        w == IF w0 < 0 THEN (w0 + INT32_MAX) + 1 ELSE w0
    IN  IF t % 2 = 0 THEN PyInt(t \div 2, w)
        ELSE PyInt((t \div 2) + 1, (w - INT32_MAX) - 1)

Negate(v) ==
    IF v.lo = INT32_MIN THEN PyInt(1 - v.hi, INT32_MIN) ELSE PyInt(-v.hi, -v.lo)

\* int(token), for a literal of at most 10 significant digits
ParseInt(token) ==
    IF Head(token) = "-" THEN Negate(NatValue(Tail(token)))
    ELSE IF Head(token) = "+" THEN NatValue(Tail(token))
    ELSE NatValue(token)

(***************************************************************************)
(* A successfully constructed SubstitutionMatrix is the record             *)
(* [alph1, alph2, matrix] of its fields _alph1, _alph2, _matrix.           *)
(***************************************************************************)
RECURSIVE Concat(_)
Concat(strings) == IF strings = <<>> THEN <<>> ELSE Head(strings) \o Concat(Tail(strings))

\* SubstitutionMatrix.__str__
__str__(self) ==
    LET m == len(self.alph1)
        n == len(self.alph2)
        header == <<" ">> \o Concat([j \in 1..n |-> <<" ">> \o rjust(self.alph2[j], 3)]) \o <<"\n">>
        row(i) == rjust(self.alph1[i], 1)
                  \o Concat([j \in 1..n |-> <<" ">> \o rjust(format_d(self.matrix.data[i][j].lo), 3)])
                  \o <<"\n">>
        string == header \o Concat([i \in 1..m |-> row(i)])
    IN  SubSeq(string, 1, Len(string) - 1)

\* the lines that are neither empty nor a comment
RECURSIVE NotSkipped(_)
NotSkipped(lines) ==
    IF lines = <<>> THEN <<>>
    ELSE (IF Len(Head(lines)) # 0 /\ Head(lines)[1] # "#" THEN <<Head(lines)>> ELSE <<>>)
         \o NotSkipped(Tail(lines))

\* the last index pair (i, j), in row-major order, that writes the key
LastWriter(symbols1, symbols2, key) ==
    LET writers == {ij \in (1..Len(symbols1)) \X (1..Len(symbols2)) :
                        <<symbols1[ij[1]], symbols2[ij[2]]>> = key}
    IN  CHOOSE ij \in writers : \A o \in writers : o[1] < ij[1] \/ (o[1] = ij[1] /\ o[2] <= ij[2])

\* SubstitutionMatrix.dict_from_str
dict_from_str(string) ==
    LET stripped == [k \in 1..Len(str_split(string, "\n")) |-> str_strip(str_split(string, "\n")[k])]
        lines == NotSkipped(stripped)
    IN  IF lines = <<>> THEN Raise("IndexError")
        ELSE
        LET rows == Tail(lines)
            r == Len(rows)
            symbols1 == [i \in 1..r |-> str_split_ws(rows[i])[1]]
            symbols2 == str_split_ws(lines[1])
            n == Len(symbols2)
            tokens == [i \in 1..r |-> Tail(str_split_ws(rows[i]))]
            \* np.array(...): a ragged list of rows has no array shape
            ragged == \E i \in 1..r : Len(tokens[i]) # Len(tokens[1])
            k == IF r = 0 THEN 0 ELSE Len(tokens[1])
            \* .astype(int)
            invalid == \E i \in 1..r : \E t \in 1..Len(tokens[i]) : ~IsIntLiteral(tokens[i][t])
            \* np.transpose(scores): shape (k, r)
            scores == [i \in 1..k |-> [j \in 1..r |-> ParseInt(tokens[j][i])]]
            keys == {<<symbols1[i], symbols2[j]>> : i \in 1..r, j \in 1..n}
        IN  IF ragged \/ invalid THEN Raise("ValueError")
            ELSE IF r > 0 /\ (r > k \/ n > r) THEN Raise("IndexError")
            ELSE Ok([key \in keys |->
                        LET ij == LastWriter(symbols1, symbols2, key)
                        IN  scores[ij[1]][ij[2]]])

\* the files of the directory matrix_data: a name and the text of its file
Line(tokens) ==
    IF tokens = <<>> THEN <<>>
    ELSE Head(tokens) \o Concat([t \in 1..(Len(tokens) - 1) |-> <<" ">> \o tokens[t + 1]])

Text(lines) ==
    IF lines = <<>> THEN <<>>
    ELSE Line(Head(lines)) \o Concat([l \in 1..(Len(lines) - 1) |-> <<"\n">> \o Line(lines[l + 1])])

_DB_DIR ==
    [name \in {"AB", "BLOSUM62", "NUC", "3Di", "PB"} |->
        CASE name = "AB" ->
                Text(<< << <<"#">>, <<"t">> >>,
                        << <<"A">>, <<"B">> >>,
                        << <<"A">>, <<"1">>, <<"-", "2">> >>,
                        << <<"B">>, <<"-", "2">>, <<"3">> >> >>)
          [] name = "BLOSUM62" ->
                Text(<< << <<"A">>, <<"C">> >>,
                        << <<"A">>, <<"4">>, <<"0">> >>,
                        << <<"C">>, <<"0">>, <<"9">> >> >>)
          [] name = "NUC" ->
                Text(<< << <<"A">>, <<"C">> >>,
                        << <<"A">>, <<"5">>, <<"-", "4">> >>,
                        << <<"C">>, <<"-", "4">>, <<"5">> >> >>)
          [] name = "3Di" ->
                Text(<< << <<"a">>, <<"c">> >>,
                        << <<"a">>, <<"6">>, <<"-", "3">> >>,
                        << <<"c">>, <<"-", "3">>, <<"6">> >> >>)
          [] name = "PB" ->
                Text(<< << <<"a">>, <<"b">> >>,
                        << <<"a">>, <<"5", "1">>, <<"-", "7">> >>,
                        << <<"b">>, <<"-", "7">>, <<"4", "8">> >> >>)]

\* SubstitutionMatrix.dict_from_db
dict_from_db(matrix_name) ==
    IF matrix_name \notin DOMAIN _DB_DIR THEN Raise("FileNotFoundError")
    ELSE dict_from_str(_DB_DIR[matrix_name])

\* SubstitutionMatrix.__init__; scores is the argument score_matrix tagged with its
\* Python type, version the major version of NumPy, base the memory of the
\* array the constructor allocates
SubstitutionMatrix(alphabet_1, alphabet_2, scores, version, base) ==
    LET out_of_bound == IF version >= 2 THEN "raise" ELSE "wrap"
        filled(matrix_dict) ==
            LET f == _fill_with_matrix_dict(alphabet_1, alphabet_2, matrix_dict, out_of_bound, base)
            IN  IF f.ok
                THEN Ok([alph1 |-> alphabet_1, alph2 |-> alphabet_2, matrix |-> setflags(f.val, FALSE)])
                ELSE f
    IN  IF scores.type = "dict" THEN filled(scores.dict)
        ELSE IF scores.type = "ndarray" THEN
            LET alph_shape == <<len(alphabet_1), len(alphabet_2)>>
                matrix == np_astype_int32(scores.ndarray, base)
            IN  IF scores.ndarray.shape # alph_shape THEN Raise("ValueError")
                ELSE IF ~issubdtype_integer(scores.ndarray.dtype) THEN Raise("TypeError")
                ELSE IF np_any_eq(matrix, INT32_MAX) \/ np_any_eq(matrix, INT32_MIN)
                     THEN Raise("ValueError")
                ELSE Ok([alph1 |-> alphabet_1, alph2 |-> alphabet_2,
                         matrix |-> setflags(matrix, FALSE)])
        ELSE IF scores.type = "str" THEN
            LET matrix_dict == dict_from_db(scores.str)
            IN  IF matrix_dict.ok THEN filled(matrix_dict.val) ELSE matrix_dict
        ELSE Raise("TypeError")

FromDict(d) == [type |-> "dict", dict |-> d]

FromArray(a) == [type |-> "ndarray", ndarray |-> a]

FromName(s) == [type |-> "str", str |-> s]

\* SubstitutionMatrix.shape
shape(self) == <<len(self.alph1), len(self.alph2)>>

AllCodes(self) == (0..(len(self.alph1) - 1)) \X (0..(len(self.alph2) - 1))

\* ndarray[code1, code2]: a negative index counts from the end
np_getitem(arr, code1, code2) ==
    LET m == arr.shape[1]
        n == arr.shape[2]
    IN  IF code1 < -m \/ code1 >= m \/ code2 < -n \/ code2 >= n THEN Raise("IndexError")
        ELSE Ok(Cell(arr, IF code1 < 0 THEN code1 + m ELSE code1,
                          IF code2 < 0 THEN code2 + n ELSE code2))

\* SubstitutionMatrix.get_score_by_code
get_score_by_code(self, code1, code2) == np_getitem(self.matrix, code1, code2)

\* SubstitutionMatrix.get_score
get_score(self, symbol1, symbol2) ==
    IF ~Contains(self.alph1, symbol1) \/ ~Contains(self.alph2, symbol2) THEN Raise("AlphabetError")
    ELSE np_getitem(self.matrix, encode(self.alph1, symbol1), encode(self.alph2, symbol2))

\* SubstitutionMatrix.score_matrix: the array of the matrix itself
score_matrix(self) == self.matrix

\* ndarray[code1, code2] = value, for codes within the shape: the new
\* content of the array, or the error of a read-only array
np_setitem(arr, code1, code2, value) ==
    IF ~arr.writeable THEN Raise("ValueError")
    ELSE Ok([arr EXCEPT !.data[code1 + 1][code2 + 1] = Wrap32(value)])

\* the array arr after memory base was written at (code1, code2)
Written(arr, base, code1, code2, value) ==
    IF arr.base = base
    THEN [arr EXCEPT !.data[code1 + 1][code2 + 1] =
              IF arr.dtype = "int32" THEN Wrap32(value) ELSE value]
    ELSE arr

\* SubstitutionMatrix.transpose
transpose(self, version, base) ==
    LET new_alph1 == self.alph2
        new_alph2 == self.alph1
        new_matrix == np_transpose(self.matrix)
    IN  SubstitutionMatrix(new_alph1, new_alph2, FromArray(new_matrix), version, base)

\* SubstitutionMatrix.is_symmetric
is_symmetric(self) ==
    AlphabetEq(self.alph1, self.alph2) /\ np_array_equal(self.matrix, np_transpose(self.matrix))

\* SubstitutionMatrix.__eq__, for an item that is a SubstitutionMatrix
__eq__(self, item) ==
    IF ~AlphabetEq(self.alph1, item.alph1) THEN FALSE
    ELSE IF ~AlphabetEq(self.alph2, item.alph2) THEN FALSE
    ELSE IF ~np_array_equal(self.matrix, item.matrix) THEN FALSE
    ELSE TRUE

(***************************************************************************)
(* Sequence (external collaborator): an alphabet and the array of the      *)
(* codes of its symbols.  PositionalSequence(sequence) has the alphabet of *)
(* the positions of the sequence, one symbol for each position.            *)
(***************************************************************************)
Sequence(alphabet, code) == [alphabet |-> alphabet, code |-> code]

PositionalSymbol(sequence, pos) ==
    NatDigits(pos) \o <<":">> \o decode(sequence.alphabet, sequence.code[pos + 1])

PositionalSequence(sequence) ==
    Sequence([k \in 1..Len(sequence.code) |-> PositionalSymbol(sequence, k - 1)],
             [k \in 1..Len(sequence.code) |-> k - 1])

\* np.repeat(array, repeats): each element repeats times in a row
np_repeat(array, repeats) ==
    [k \in 1..(Len(array) * repeats) |-> array[((k - 1) \div repeats) + 1]]

\* np.tile(array, reps): the array reps times in a row
np_tile(array, reps) ==
    [k \in 1..(Len(array) * reps) |-> array[((k - 1) % Len(array)) + 1]]

\* _cartesian_product: the rows of np.transpose([repeat, tile])
_cartesian_product(array1, array2) ==
    LET rep == np_repeat(array1, Len(array2))
        til == np_tile(array2, Len(array1))
    IN  [k \in 1..Len(rep) |-> <<rep[k], til[k]>>]

\* matrix[tuple(index.T)]: one element for each row (code1, code2) of index
np_take(arr, index) ==
    [k \in 1..Len(index) |-> Cell(arr, index[k][1], index[k][2])]

\* flat.reshape(n1, n2), row-major
np_reshape(base, flat, n1, n2) ==
    ndarray(base, "int32", n1, n2,
            [p \in 1..n1 |-> [q \in 1..n2 |-> flat[(p - 1) * n2 + q]]])

\* SubstitutionMatrix.as_positional; base + 1 is the memory of the array
\* that the indexing creates
as_positional(self, sequence1, sequence2, version, base) ==
    LET pos_sequence1 == PositionalSequence(sequence1)
        pos_sequence2 == PositionalSequence(sequence2)
        pos_score_matrix ==
            np_reshape(base + 1,
                       np_take(self.matrix, _cartesian_product(sequence1.code, sequence2.code)),
                       Len(sequence1.code), Len(sequence2.code))
        pos_matrix == SubstitutionMatrix(pos_sequence1.alphabet, pos_sequence2.alphabet,
                                         FromArray(pos_score_matrix), version, base)
    IN  IF pos_matrix.ok
        THEN Ok([pos_matrix |-> pos_matrix.val,
                 pos_sequence1 |-> pos_sequence1,
                 pos_sequence2 |-> pos_sequence2])
        ELSE pos_matrix

(***************************************************************************)
(* The inputs of the model.                                                *)
(***************************************************************************)
Nucleotides == << <<"A">>, <<"C">>, <<"G">>, <<"T">> >>

Words == << <<"f", "o", "o">>, <<"b", "a", "r">>, <<"1">>, <<"2">> >>

Alphabets1 == {SubSeq(Nucleotides, 1, k) : k \in 1..MaxAlphLen}

Alphabets2 == Alphabets1 \cup {SubSeq(Words, 1, k) : k \in 1..MaxAlphLen}

\* a table of distinct scores and a table that is symmetric when square
BaseTables(m, n) ==
    { [i \in 1..m |-> [j \in 1..n |-> int32((i - 1) * n + j)]],
      [i \in 1..m |-> [j \in 1..n |-> int32(i + j - 5)]] }

\* the 32-bit extremes, 2^32 + 7 and the least 64-bit integer
SpecialValues == {int32(INT32_MAX), int32(INT32_MIN), PyInt(1, 7), PyInt(INT32_MIN, 0)}

Cells(m, n) == (1..m) \X (1..n)

\* no cell, or one cell with a special value
Overrides(m, n) ==
    {<<>>} \cup UNION {[{cell} -> SpecialValues] : cell \in Cells(m, n)}

Override(data, o) ==
    [i \in DOMAIN data |-> [j \in DOMAIN data[i] |->
        IF <<i, j>> \in DOMAIN o THEN o[<<i, j>>] ELSE data[i][j]]]

TableBase == 1

Tables(m, n) ==
    {ndarray(TableBase, "int64", m, n, Override(b, o)) : b \in BaseTables(m, n), o \in Overrides(m, n)}
    \cup {ndarray(TableBase, dt, m, n, b) : b \in BaseTables(m, n), dt \in {"int32", "float64"}}
    \cup {ndarray(TableBase, "int64", n, m + 1, b) : b \in BaseTables(n, m + 1)}

\* the pairing map {(alphabet1.decode(i), alphabet2.decode(j)): T[i, j]}
\* without the keys in missing
PairingMap(alph1, alph2, T, missing) ==
    [key \in {<<decode(alph1, i), decode(alph2, j)>> :
                  i \in 0..(len(alph1) - 1), j \in 0..(len(alph2) - 1)} \ missing
        |-> Cell(T, encode(alph1, key[1]), encode(alph2, key[2]))]

Pairs(alph1, alph2) == {<<alph1[i], alph2[j]>> : i \in 1..Len(alph1), j \in 1..Len(alph2)}

(***************************************************************************)
(* The standard matrices and their memoization by functools.cache.         *)
(***************************************************************************)
\* ProteinSequence.alphabet, NucleotideSequence.alphabet_amb,
\* I3DSequence.alphabet and ProteinBlocksSequence.alphabet with its
\* undefined symbol, cut down to the symbols of the database files above
ProteinSequence_alphabet == << <<"A">>, <<"C">> >>

NucleotideSequence_alphabet_amb == << <<"A">>, <<"C">> >>

I3DSequence_alphabet == << <<"a">>, <<"c">> >>

ProteinBlocksSequence_alphabet == << <<"a">>, <<"b">>, <<"z">> >>

ProteinBlocksSequence_undefined_symbol == <<"z">>

\* matrix_dict[key] = value
dict_setitem(matrix_dict, key, value) ==
    [k \in DOMAIN matrix_dict \cup {key} |-> IF k = key THEN value ELSE matrix_dict[k]]

\* the loop of std_protein_blocks_matrix from the symbol of code i on
RECURSIVE AddUndefined(_, _, _, _, _)
AddUndefined(matrix_dict, alphabet, i, undefined_symbol, undefined_mismatch) ==
    IF i >= len(alphabet) THEN matrix_dict
    ELSE LET symbol == decode(alphabet, i)
         IN  IF symbol = undefined_symbol
             THEN AddUndefined(matrix_dict, alphabet, i + 1, undefined_symbol, undefined_mismatch)
             ELSE AddUndefined(
                      dict_setitem(dict_setitem(matrix_dict, <<symbol, undefined_symbol>>,
                                                undefined_mismatch),
                                   <<undefined_symbol, symbol>>, undefined_mismatch),
                      alphabet, i + 1, undefined_symbol, undefined_mismatch)

\* the bodies of the four accessors, as functools.cache calls them on a miss
std_protein_matrix(version, base) ==
    SubstitutionMatrix(ProteinSequence_alphabet, ProteinSequence_alphabet,
                       FromName("BLOSUM62"), version, base)

std_nucleotide_matrix(version, base) ==
    SubstitutionMatrix(NucleotideSequence_alphabet_amb, NucleotideSequence_alphabet_amb,
                       FromName("NUC"), version, base)

std_3di_matrix(version, base) ==
    SubstitutionMatrix(I3DSequence_alphabet, I3DSequence_alphabet,
                       FromName("3Di"), version, base)

std_protein_blocks_matrix(undefined_match, undefined_mismatch, version, base) ==
    LET alphabet == ProteinBlocksSequence_alphabet
        undefined_symbol == ProteinBlocksSequence_undefined_symbol
        matrix_dict == dict_from_db("PB")
    IN  IF ~matrix_dict.ok THEN matrix_dict
        ELSE SubstitutionMatrix(alphabet, alphabet,
                 FromDict(dict_setitem(
                     AddUndefined(matrix_dict.val, alphabet, 0, undefined_symbol,
                                  int32(undefined_mismatch)),
                     <<undefined_symbol, undefined_symbol>>, int32(undefined_match))),
                 version, base)

\* the defaults of the parameters of std_protein_blocks_matrix
DefaultUndefinedMatch == 200

DefaultUndefinedMismatch == -200

\* a call of an accessor: its name, its positional and its keyword arguments
Invocation(f, args, kwds) == [f |-> f, args |-> args, kwds |-> kwds]

\* the argument lists the callers pass to std_protein_blocks_matrix
ProteinBlocksArguments ==
    { << <<>>, <<>> >>,
      << <<DefaultUndefinedMatch>>, <<>> >>,
      << <<DefaultUndefinedMatch, DefaultUndefinedMismatch>>, <<>> >>,
      << <<>>, << <<"undefined_match", DefaultUndefinedMatch>>,
                  <<"undefined_mismatch", DefaultUndefinedMismatch>> >> >>,
      << <<100, -100>>, <<>> >> }

Calls ==
    {Invocation(f, <<>>, <<>>) :
        f \in {"std_protein_matrix", "std_nucleotide_matrix", "std_3di_matrix"}}
    \cup {Invocation("std_protein_blocks_matrix", a[1], a[2]) : a \in ProteinBlocksArguments}

\* the key functools.cache files a call under: the positional arguments
\* followed by the keyword arguments as passed; each accessor has its own
\* dictionary, so the name of the accessor is part of the key here
_make_key(call) == call

\* Python's binding of the arguments of a call to the parameters
\* (undefined_match, undefined_mismatch) of std_protein_blocks_matrix
Keyword(kwds, name, default) ==
    IF \E k \in 1..Len(kwds) : kwds[k][1] = name
    THEN kwds[CHOOSE k \in 1..Len(kwds) : kwds[k][1] = name][2]
    ELSE default

Bind(call) ==
    IF call.f # "std_protein_blocks_matrix" THEN <<>>
    ELSE << IF Len(call.args) >= 1 THEN call.args[1]
            ELSE Keyword(call.kwds, "undefined_match", DefaultUndefinedMatch),
            IF Len(call.args) >= 2 THEN call.args[2]
            ELSE Keyword(call.kwds, "undefined_mismatch", DefaultUndefinedMismatch) >>

\* the body of the accessor of a call, run with the bound arguments
Body(call, version, base) ==
    CASE call.f = "std_protein_matrix" -> std_protein_matrix(version, base)
      [] call.f = "std_nucleotide_matrix" -> std_nucleotide_matrix(version, base)
      [] call.f = "std_3di_matrix" -> std_3di_matrix(version, base)
      [] call.f = "std_protein_blocks_matrix" ->
            std_protein_blocks_matrix(Bind(call)[1], Bind(call)[2], version, base)

\* the threads of the process
MaxThreads == 2

Threads == 1..MaxThreads

\* no accessor has been called: the dictionaries of functools.cache are empty
NoCalls ==
    /\ cache = [key \in Calls |-> None]
    /\ pc = [t \in Threads |-> None]
    /\ constructions = [key \in Calls |-> 0]
    /\ returned = [key \in Calls |-> {}]
    /\ calls = 0

(***************************************************************************)
(* The caller: it constructs a matrix from its table, from the pairing map *)
(* of its table or from a name of the database, and transposes it.         *)
(***************************************************************************)
Init ==
    /\ numpy \in {1, 2}
    /\ alphabet1 \in Alphabets1
    /\ alphabet2 \in Alphabets2
    /\ table \in Tables(len(alphabet1), len(alphabet2))
    /\ M = None
    /\ Mt = None
    /\ Mtt = None
    /\ P = None
    /\ ret = None
    /\ writes = 0
    /\ source = None
    /\ text = None
    /\ parsed = None
    /\ R = None
    /\ NoCalls

Constructed(how, out) == [how |-> how, out |-> out]

IsOk(x) == x # None /\ x.out.ok

\* the memory of the arrays of the matrices M, Mt, Mtt and P
MBase == 2

MtBase == 3

MttBase == 4

PBase == 5

\* a new M replaces the matrices derived from the old one
Construct(how, scores) ==
    /\ M' = Constructed(how, SubstitutionMatrix(alphabet1, alphabet2, scores, numpy, MBase))
    /\ Mt' = None
    /\ Mtt' = None
    /\ P' = None
    /\ UNCHANGED <<callerVars, cacheVars, table, ret, writes, codecVars>>

ConstructFromTable == Construct([type |-> "ndarray"], FromArray(table))

ConstructFromDictWithout(missing) ==
    /\ table.shape = <<len(alphabet1), len(alphabet2)>>
    /\ Construct([type |-> "dict", missing |-> missing],
                 FromDict(PairingMap(alphabet1, alphabet2, table, missing)))

ConstructFromDict ==
    \E missing \in {{}} \cup {{key} : key \in Pairs(alphabet1, alphabet2)} :
        ConstructFromDictWithout(missing)

ConstructFromName ==
    \E name \in {"AB", "XY"} : Construct([type |-> "str", name |-> name], FromName(name))

Transpose ==
    /\ IsOk(M)
    /\ Mt = None
    /\ Mt' = Constructed([type |-> "transpose"], transpose(M.out.val, numpy, MtBase))
    /\ UNCHANGED <<callerVars, cacheVars, table, M, Mtt, P, ret, writes, codecVars>>

TransposeBack ==
    /\ IsOk(Mt)
    /\ Mtt = None
    /\ Mtt' = Constructed([type |-> "transpose"], transpose(Mt.out.val, numpy, MttBase))
    /\ UNCHANGED <<callerVars, cacheVars, table, M, Mt, P, ret, writes, codecVars>>

Next ==
    \/ ConstructFromTable
    \/ ConstructFromDict
    \/ ConstructFromName
    \/ Transpose
    \/ TransposeBack

Spec == Init /\ [][Next]_vars

(***************************************************************************)
(* The positional transformation (specification SpecPositional): the       *)
(* caller has a matrix, constructed from its table or from the pairing map *)
(* of its table, and two sequences over the alphabets of the matrix.       *)
(***************************************************************************)
MaxSeqLen == 2

RECURSIVE SeqsOfLen(_, _)
SeqsOfLen(S, n) ==
    IF n = 0 THEN {<<>>} ELSE {Append(s, x) : s \in SeqsOfLen(S, n - 1), x \in S}

\* the code arrays of the sequences of 1 to MaxSeqLen symbols
CodeArrays(alphabet) ==
    UNION {SeqsOfLen(0..(len(alphabet) - 1), n) : n \in 1..MaxSeqLen}

\* the alphabets and the table of the docstring of SubstitutionMatrix
DocAlphabet1 == SubSeq(Words, 1, 2)

DocAlphabet2 == << <<"1">>, <<"2">>, <<"3">> >>

DocTable == << <<int32(5), int32(10), int32(15)>>, <<int32(42), int32(42), int32(42)>> >>

PositionalTables(m, n) ==
    {ndarray(TableBase, "int64", m, n, Override(b, o)) :
        b \in BaseTables(m, n) \cup (IF <<m, n>> = <<2, 3>> THEN {DocTable} ELSE {}),
        o \in {<<>>} \cup {[c \in {cell} |-> int32(INT32_MAX)] : cell \in Cells(m, n)}}

InitPositional ==
    /\ numpy = 2
    /\ alphabet1 \in {SubSeq(Nucleotides, 1, 2), DocAlphabet1}
    /\ alphabet2 \in {SubSeq(Nucleotides, 1, 2), DocAlphabet2}
    /\ table \in PositionalTables(len(alphabet1), len(alphabet2))
    /\ M \in {Constructed([type |-> "ndarray"],
                  SubstitutionMatrix(alphabet1, alphabet2, FromArray(table), numpy, MBase)),
              Constructed([type |-> "dict", missing |-> {}],
                  SubstitutionMatrix(alphabet1, alphabet2,
                      FromDict(PairingMap(alphabet1, alphabet2, table, {})), numpy, MBase))}
    /\ M.out.ok
    /\ Mt = None
    /\ Mtt = None
    /\ P = None
    /\ ret = None
    /\ writes = 0
    /\ source = None
    /\ text = None
    /\ parsed = None
    /\ R = None
    /\ NoCalls

Positional(sequence1, sequence2, out) ==
    [how |-> [type |-> "as_positional", sequence1 |-> sequence1, sequence2 |-> sequence2],
     out |-> out]

AsPositionalOf(code1, code2) ==
    /\ IsOk(M)
    /\ P = None
    /\ LET sequence1 == Sequence(M.out.val.alph1, code1)
           sequence2 == Sequence(M.out.val.alph2, code2)
       IN  P' = Positional(sequence1, sequence2,
                           as_positional(M.out.val, sequence1, sequence2, numpy, PBase))
    /\ UNCHANGED <<callerVars, cacheVars, table, M, Mt, Mtt, ret, writes, codecVars>>

AsPositional ==
    \E code1 \in CodeArrays(alphabet1) : \E code2 \in CodeArrays(alphabet2) :
        AsPositionalOf(code1, code2)

NextPositional == AsPositional

SpecPositional == InitPositional /\ [][NextPositional]_vars

\* C2: as_positional(s1, s2) gives a matrix of shape (n1, n2) whose score
\* at the codes (p, q) is the score of M for the symbols s1[p] and s2[q]
C2_PositionalEquivalence ==
    P # None =>
        /\ P.out.ok
        /\ LET s1 == P.how.sequence1
               s2 == P.how.sequence2
               pos_matrix == P.out.val.pos_matrix
           IN  /\ shape(pos_matrix) = <<Len(s1.code), Len(s2.code)>>
               /\ pos_matrix.matrix.shape = <<Len(s1.code), Len(s2.code)>>
               /\ \A p \in 0..(Len(s1.code) - 1) : \A q \in 0..(Len(s2.code) - 1) :
                     get_score_by_code(pos_matrix, p, q)
                         = get_score(M.out.val, decode(s1.alphabet, s1.code[p + 1]),
                                                decode(s2.alphabet, s2.code[q + 1]))

\* the same for the matrices without an entry INT32_MIN or INT32_MAX
PositionalEquivalenceInRange ==
    (P # None /\ ~HasSentinel(M.out.val.matrix)) => C2_PositionalEquivalence

(***************************************************************************)
(* The caller of an existing matrix (specification SpecImmutable): it      *)
(* constructs matrices from its table and from the pairing map of its      *)
(* table, derives and queries them, and writes to its own table and to the *)
(* arrays that score_matrix() returns.                                     *)
(***************************************************************************)
MaxWrites == 1

InitImmutable ==
    /\ numpy = 2
    /\ alphabet1 = SubSeq(Nucleotides, 1, MaxAlphLen)
    /\ alphabet2 \in {SubSeq(Nucleotides, 1, MaxAlphLen), SubSeq(Words, 1, MaxAlphLen - 1)}
    /\ table \in {ndarray(TableBase, dt, len(alphabet1), len(alphabet2), b) :
                     b \in BaseTables(len(alphabet1), len(alphabet2)), dt \in {"int32", "int64"}}
    /\ M = None
    /\ Mt = None
    /\ Mtt = None
    /\ P = None
    /\ ret = None
    /\ writes = 0
    /\ source = None
    /\ text = None
    /\ parsed = None
    /\ R = None
    /\ NoCalls

ConstructFromCompleteDict == ConstructFromDictWithout({})

\* the alphabet backwards, as an array of codes
Backwards(alphabet) == [k \in 1..len(alphabet) |-> len(alphabet) - k]

AsPositionalBackwards == AsPositionalOf(Backwards(alphabet1), Backwards(alphabet2))

Returned(op, out) == [op |-> op, out |-> out]

\* the matrices the caller holds
Held == {X \in {M, Mt} : IsOk(X)}

Query(value) ==
    /\ ret' = value
    /\ UNCHANGED <<callerVars, cacheVars, table, M, Mt, Mtt, P, writes, codecVars>>

GetShape == \E X \in Held : Query(Returned("shape", Ok([shape |-> shape(X.out.val)])))

GetScoreByCode ==
    \E X \in Held : \E code1 \in 0..len(X.out.val.alph1) : \E code2 \in 0..len(X.out.val.alph2) :
        Query(Returned("get_score_by_code", get_score_by_code(X.out.val, code1, code2)))

GetScore ==
    \E X \in Held : \E symbol1 \in {alphabet1[1], alphabet2[1]} : \E symbol2 \in {alphabet1[1], alphabet2[1]} :
        Query(Returned("get_score", get_score(X.out.val, symbol1, symbol2)))

IsSymmetric == \E X \in Held : Query(Returned("is_symmetric", Ok([bool |-> is_symmetric(X.out.val)])))

Equals == \E X \in Held : \E Y \in Held : Query(Returned("__eq__", Ok([bool |-> __eq__(X.out.val, Y.out.val)])))

ToStr == \E X \in Held : Query(Returned("__str__", Ok([str |-> __str__(X.out.val)])))

\* the written cell and the written value
WrittenCode1 == 0

WrittenCode2 == 0

WrittenValue == int32(99)

\* every array of the state that views the memory base shows the write
WriteMemory(base) ==
    LET after(arr) == Written(arr, base, WrittenCode1, WrittenCode2, WrittenValue)
        matrixAfter(X) ==
            IF IsOk(X) THEN [X EXCEPT !.out.val.matrix = after(X.out.val.matrix)] ELSE X
    IN  /\ table' = after(table)
        /\ M' = matrixAfter(M)
        /\ Mt' = matrixAfter(Mt)
        /\ P' = IF IsOk(P)
                THEN [P EXCEPT !.out.val.pos_matrix.matrix = after(P.out.val.pos_matrix.matrix)]
                ELSE P

\* table[0, 0] = 99, by the caller that owns the table
WriteTable ==
    /\ writes < MaxWrites
    /\ writes' = writes + 1
    /\ WriteMemory(table.base)
    /\ ret' = Returned("table.__setitem__", Ok(WrittenValue))
    /\ UNCHANGED <<callerVars, cacheVars, Mtt, codecVars>>

\* X.score_matrix()[0, 0] = 99
WriteTo(name, arr) ==
    /\ writes < MaxWrites
    /\ writes' = writes + 1
    /\ LET out == np_setitem(arr, WrittenCode1, WrittenCode2, WrittenValue)
       IN  /\ ret' = [op |-> "score_matrix().__setitem__", of |-> name,
                       out |-> IF out.ok THEN Ok(WrittenValue) ELSE out]
           /\ IF out.ok THEN WriteMemory(arr.base) ELSE UNCHANGED <<table, M, Mt, P>>
    /\ UNCHANGED <<callerVars, cacheVars, Mtt, codecVars>>

WriteScoreMatrix == \E X \in Held : WriteTo("matrix", score_matrix(X.out.val))

WritePositional == IsOk(P) /\ WriteTo("pos_matrix", score_matrix(P.out.val.pos_matrix))

NextImmutable ==
    \/ ConstructFromTable
    \/ ConstructFromCompleteDict
    \/ Transpose
    \/ AsPositionalBackwards
    \/ GetShape
    \/ GetScoreByCode
    \/ GetScore
    \/ IsSymmetric
    \/ Equals
    \/ ToStr
    \/ WriteTable
    \/ WriteScoreMatrix
    \/ WritePositional

SpecImmutable == InitImmutable /\ [][NextImmutable]_vars

Scores(self) == [c \in AllCodes(self) |-> get_score_by_code(self, c[1], c[2])]

SameMatrix(before, after) ==
    shape(after) = shape(before) /\ Scores(after) = Scores(before)

\* C9: in every step in which the caller does not replace a matrix by a
\* newly constructed one, the matrix keeps its shape and the score of every
\* pair of codes; a write through the array of score_matrix() fails
C9_Immutable ==
    [][/\ (IsOk(M) /\ ~(ConstructFromTable \/ ConstructFromCompleteDict))
            => (IsOk(M') /\ SameMatrix(M.out.val, M'.out.val))
       /\ (IsOk(Mt) /\ Mt' # None)
            => (IsOk(Mt') /\ SameMatrix(Mt.out.val, Mt'.out.val))
       /\ (IsOk(P) /\ P' # None)
            => (IsOk(P') /\ SameMatrix(P.out.val.pos_matrix, P'.out.val.pos_matrix))
       /\ (writes' # writes /\ ret'.op = "score_matrix().__setitem__") => ~ret'.out.ok
      ]_vars

\* the caller has written to its table and has tried to write to a matrix
\* that has a transpose and a positional matrix
C9_Witness ==
    /\ IsOk(M)
    /\ IsOk(Mt)
    /\ IsOk(P)
    /\ writes > 0
    /\ ret # None
    /\ ret.op = "score_matrix().__setitem__"
    /\ ~ret.out.ok

(***************************************************************************)
(* The text format (specification SpecCodec): the caller prints a matrix   *)
(* that it constructed from a pairing map, parses the text and constructs  *)
(* a matrix from the parsed map; or it parses a text written by hand.      *)
(***************************************************************************)
CodecTables(m, n) ==
    {ndarray(TableBase, "int64", m, n, Override(b, o)) :
        b \in BaseTables(m, n),
        o \in {<<>>} \cup UNION {[{cell} -> {int32(INT32_MAX), int32(INT32_MIN)}] : cell \in Cells(m, n)}}

\* the score tokens of a row written by hand: count tokens, the one at
\* position bad (if any) is not an integer
ScoreTokens(count, bad) ==
    [t \in 1..count |-> IF t = bad THEN <<"1", ".", "5">>
                        ELSE IF t % 2 = 0 THEN <<"-">> \o NatDigits(t) ELSE NatDigits(t)]

RowTokens == {ScoreTokens(count, bad) : count \in 0..(MaxAlphLen + 1), bad \in 0..(MaxAlphLen + 1)}

\* a header of 1 to MaxAlphLen symbols and up to MaxAlphLen rows, each the
\* symbol of the row and its score tokens; with or without a comment line
Sources ==
    {[comment |-> c, header |-> SubSeq(Nucleotides, 1, n), rows |-> rows] :
        c \in BOOLEAN, n \in 1..MaxAlphLen,
        rows \in UNION {[1..r -> RowTokens] : r \in 0..MaxAlphLen}}

Render(src) ==
    Text((IF src.comment THEN << << <<"#">>, <<"c">> >> >> ELSE <<>>)
         \o <<src.header>>
         \o [i \in 1..Len(src.rows) |-> <<Nucleotides[i]>> \o src.rows[i]])

Str(string) == [str |-> string]

InitCodec ==
    /\ numpy = 2
    /\ Mt = None
    /\ Mtt = None
    /\ P = None
    /\ ret = None
    /\ writes = 0
    /\ parsed = None
    /\ R = None
    /\ NoCalls
    /\ \/ /\ alphabet1 \in Alphabets1
          /\ alphabet2 \in Alphabets2
          /\ table \in CodecTables(len(alphabet1), len(alphabet2))
          /\ M = Constructed([type |-> "dict", missing |-> {}],
                     SubstitutionMatrix(alphabet1, alphabet2,
                         FromDict(PairingMap(alphabet1, alphabet2, table, {})), numpy, MBase))
          /\ source = None
          /\ text = None
       \/ /\ alphabet1 = SubSeq(Nucleotides, 1, 1)
          /\ alphabet2 = SubSeq(Nucleotides, 1, 1)
          /\ table = ndarray(TableBase, "int64", 1, 1, << <<int32(1)>> >>)
          /\ M = None
          /\ source \in Sources
          /\ text = Str(Render(source))

\* text = str(M)
Format ==
    /\ IsOk(M)
    /\ text = None
    /\ text' = Str(__str__(M.out.val))
    /\ UNCHANGED <<callerVars, cacheVars, table, M, Mt, Mtt, P, ret, writes, source, parsed, R>>

\* parsed = SubstitutionMatrix.dict_from_str(text)
DictFromStr ==
    /\ text # None
    /\ parsed = None
    /\ parsed' = dict_from_str(text.str)
    /\ UNCHANGED <<callerVars, cacheVars, table, M, Mt, Mtt, P, ret, writes, source, text, R>>

RBase == 6

\* R = SubstitutionMatrix(M.get_alphabet1(), M.get_alphabet2(), parsed)
Reconstruct ==
    /\ IsOk(M)
    /\ parsed # None
    /\ parsed.ok
    /\ R = None
    /\ R' = Constructed([type |-> "dict", missing |-> {}],
                SubstitutionMatrix(M.out.val.alph1, M.out.val.alph2,
                                   FromDict(parsed.val), numpy, RBase))
    /\ UNCHANGED <<callerVars, cacheVars, table, M, Mt, Mtt, P, ret, writes, source, text, parsed>>

NextCodec ==
    \/ Format
    \/ DictFromStr
    \/ Reconstruct

SpecCodec == InitCodec /\ [][NextCodec]_vars

\* C1: the text str(M) of a matrix M constructed from a total pairing map
\* is parsed by dict_from_str, and the matrix constructed over the
\* alphabets of M from the parsed map exists and is equal to M
C1_RoundTrip ==
    IsOk(M) =>
        /\ parsed # None => parsed.ok
        /\ R # None => (R.out.ok /\ __eq__(R.out.val, M.out.val))

\* the round trip of the matrices with one alphabet for rows and columns
\* and a symmetric table
RoundTripSymmetric ==
    (IsOk(M) /\ is_symmetric(M.out.val)) => C1_RoundTrip

\* a data row has a number of score tokens that is not the number of the
\* symbols of the header, or a token that is not an integer
Malformed(src) ==
    \E i \in 1..Len(src.rows) :
        \/ Len(src.rows[i]) # Len(src.header)
        \/ \E t \in 1..Len(src.rows[i]) : src.rows[i][t] = <<"1", ".", "5">>

\* C10: dict_from_str fails for a text with a malformed data row
C10_MalformedRowRejected ==
    (source # None /\ Malformed(source) /\ parsed # None) => ~parsed.ok

\* the same for the texts in which not all rows have the same number of
\* score tokens, or a token is not an integer
Ragged(src) ==
    \E i \in 1..Len(src.rows) :
        \/ Len(src.rows[i]) # Len(src.rows[1])
        \/ \E t \in 1..Len(src.rows[i]) : src.rows[i][t] = <<"1", ".", "5">>

RaggedRowRejected ==
    (source # None /\ Ragged(source) /\ parsed # None) => ~parsed.ok

(***************************************************************************)
(* The callers of the standard accessors.  functools.cache looks the key   *)
(* of a call up in its dictionary; on a miss it runs the body of the       *)
(* accessor, holding no lock while the body runs, stores the result under  *)
(* the key and returns it.  SpecCache is one thread calling in sequence,   *)
(* SpecRace is the threads of the process calling concurrently.            *)
(***************************************************************************)
MaxCalls == 3

\* the memory of the matrix a call constructs
CacheBase == 10

InitCache ==
    /\ numpy = 2
    /\ alphabet1 = None
    /\ alphabet2 = None
    /\ table = None
    /\ M = None
    /\ Mt = None
    /\ Mtt = None
    /\ P = None
    /\ ret = None
    /\ writes = 0
    /\ source = None
    /\ text = None
    /\ parsed = None
    /\ R = None
    /\ NoCalls

\* the lookup finds the key: the call returns the cached instance
Hit(t, call) ==
    /\ pc[t] = None
    /\ calls < MaxCalls
    /\ cache[_make_key(call)] # None
    /\ calls' = calls + 1
    /\ returned' = [returned EXCEPT ![_make_key(call)] = @ \cup {cache[_make_key(call)].id}]
    /\ UNCHANGED <<cache, pc, constructions>>
    /\ UNCHANGED <<callerVars, table, M, Mt, Mtt, P, ret, writes, codecVars>>

\* the lookup does not find the key: the call enters the body of the accessor
Miss(t, call) ==
    /\ pc[t] = None
    /\ calls < MaxCalls
    /\ cache[_make_key(call)] = None
    /\ calls' = calls + 1
    /\ pc' = [pc EXCEPT ![t] = [call |-> call, number |-> calls + 1]]
    /\ UNCHANGED <<cache, constructions, returned>>
    /\ UNCHANGED <<callerVars, table, M, Mt, Mtt, P, ret, writes, codecVars>>

\* the body returns: its result is stored under the key, over whatever is
\* there, and returned; an exception of the body leaves the dictionary alone
Store(t) ==
    /\ pc[t] # None
    /\ LET call == pc[t].call
           key == _make_key(call)
           result == Body(call, numpy, CacheBase + pc[t].number)
           instance == [id |-> pc[t].number, matrix |-> result]
       IN  /\ constructions' = [constructions EXCEPT ![key] = @ + 1]
           /\ IF result.ok
              THEN /\ cache' = [cache EXCEPT ![key] = instance]
                   /\ returned' = [returned EXCEPT ![key] = @ \cup {instance.id}]
              ELSE UNCHANGED <<cache, returned>>
    /\ pc' = [pc EXCEPT ![t] = None]
    /\ UNCHANGED calls
    /\ UNCHANGED <<callerVars, table, M, Mt, Mtt, P, ret, writes, codecVars>>

CallHit(t) == \E call \in Calls : Hit(t, call)

CallMiss(t) == \E call \in Calls : Miss(t, call)

MainThread == 1

NextCache ==
    \/ CallHit(MainThread)
    \/ CallMiss(MainThread)
    \/ Store(MainThread)

SpecCache == InitCache /\ [][NextCache]_vars

NextRace ==
    \E t \in Threads :
        \/ CallHit(t)
        \/ CallMiss(t)
        \/ Store(t)

SpecRace == InitCache /\ [][NextRace]_vars

\* the calls that ask an accessor for the same matrix
SameMatrixAsked(call1, call2) == call1.f = call2.f /\ Bind(call1) = Bind(call2)

\* the runs of the body and the instances returned for the matrix of a call
RECURSIVE Sum(_, _)
Sum(f, S) ==
    IF S = {} THEN 0
    ELSE LET x == CHOOSE x \in S : TRUE IN f[x] + Sum(f, S \ {x})

ConstructionsOf(call) ==
    Sum(constructions, {_make_key(c) : c \in {c \in Calls : SameMatrixAsked(c, call)}})

ReturnedOf(call) ==
    UNION {returned[_make_key(c)] : c \in {c \in Calls : SameMatrixAsked(c, call)}}

\* C7: in a sequence of calls by one thread every accessor builds the
\* matrix of given undefined_match / undefined_mismatch values at most once,
\* whether the values are passed or are the defaults, and returns one and
\* the same instance for it on every call
C7_Memoized ==
    \A call \in Calls :
        /\ ConstructionsOf(call) <= 1
        /\ Cardinality(ReturnedOf(call)) <= 1

\* calls with the same arguments, passed the same way, are memoized: one
\* run of the body, one instance, and an entry of the dictionary stays
MemoizedPerKey ==
    \A call \in Calls :
        /\ constructions[_make_key(call)] <= 1
        /\ Cardinality(returned[_make_key(call)]) <= 1

EntryKept ==
    [][\A key \in Calls : cache[key] # None => cache'[key] = cache[key]]_vars

\* C8: when threads call the same accessor with the same arguments before
\* the cache holds the key, the body runs at most once for the key and
\* every caller is returned the same instance
C8_AtMostOneConstruction ==
    \A call \in Calls :
        /\ constructions[_make_key(call)] <= 1
        /\ Cardinality(returned[_make_key(call)]) <= 1

(***************************************************************************)
(* The caller of the lookups: it holds a matrix constructed from its table *)
(* and asks for scores by codes, inside and outside of the table, and by   *)
(* symbols, of the alphabets and unknown to them.                          *)
(***************************************************************************)
InitLookup ==
    /\ numpy = 2
    /\ alphabet1 \in Alphabets1
    /\ alphabet2 \in Alphabets2
    /\ table \in {ndarray(TableBase, dt, len(alphabet1), len(alphabet2), b) :
                     b \in BaseTables(len(alphabet1), len(alphabet2)), dt \in {"int32", "int64"}}
    /\ M = Constructed([type |-> "ndarray"],
               SubstitutionMatrix(alphabet1, alphabet2, FromArray(table), numpy, MBase))
    /\ Mt = None
    /\ Mtt = None
    /\ P = None
    /\ ret = None
    /\ writes = 0
    /\ source = None
    /\ text = None
    /\ parsed = None
    /\ R = None
    /\ NoCalls

\* the codes a caller passes for an axis of the given length: every code of
\* the axis, the codes past its end and the negative codes down to one
\* before the axis counted from its end
CodesAround(length) == (-(length + 1))..length

\* a symbol that is in none of the alphabets
UnknownSymbol == <<"?">>

SymbolsAround(alphabet) == {alphabet[c] : c \in 1..Len(alphabet)} \cup {UnknownSymbol}

Lookup(value) ==
    /\ IsOk(M)
    /\ ret' = value
    /\ UNCHANGED <<callerVars, cacheVars, table, M, Mt, Mtt, P, writes, codecVars>>

LookupByCode ==
    \E code1 \in CodesAround(len(alphabet1)) : \E code2 \in CodesAround(len(alphabet2)) :
        Lookup([op |-> "get_score_by_code", code1 |-> code1, code2 |-> code2,
                out |-> get_score_by_code(M.out.val, code1, code2)])

LookupBySymbol ==
    \E symbol1 \in SymbolsAround(alphabet1) : \E symbol2 \in SymbolsAround(alphabet2) :
        Lookup([op |-> "get_score", symbol1 |-> symbol1, symbol2 |-> symbol2,
                out |-> get_score(M.out.val, symbol1, symbol2)])

NextLookup ==
    \/ LookupByCode
    \/ LookupBySymbol

SpecLookup == InitLookup /\ [][NextLookup]_vars

\* the codes of the last lookup address a cell of the table
InTable(code1, code2) ==
    /\ 0 <= code1 /\ code1 < len(alphabet1)
    /\ 0 <= code2 /\ code2 < len(alphabet2)

\* C11: get_score_by_code(i, j) on a matrix of shape (m, n) returns the
\* entry (i, j) of the table when 0 <= i < m and 0 <= j < n, fails with
\* IndexError when i >= m or j >= n, and whenever it returns a score the
\* score is that of the cell (i, j) it was asked for
C11_BoundsCheckedLookup ==
    (ret # None /\ ret.op = "get_score_by_code") =>
        /\ InTable(ret.code1, ret.code2) =>
              ret.out = Ok(Cell(table, ret.code1, ret.code2))
        /\ (ret.code1 >= len(alphabet1) \/ ret.code2 >= len(alphabet2)) =>
              ret.out = Raise("IndexError")
        /\ ret.out.ok =>
              /\ InTable(ret.code1, ret.code2)
              /\ ret.out.val = Cell(table, ret.code1, ret.code2)

\* for codes that are not negative the lookup is as C11 says, and a lookup
\* by symbols returns the entry of the codes of the symbols or fails for a
\* symbol that is not in the alphabet
LookupOfNaturalCodes ==
    /\ (ret # None /\ ret.op = "get_score_by_code" /\ ret.code1 >= 0 /\ ret.code2 >= 0) =>
          IF InTable(ret.code1, ret.code2)
          THEN ret.out = Ok(Cell(table, ret.code1, ret.code2))
          ELSE ret.out = Raise("IndexError")
    /\ (ret # None /\ ret.op = "get_score") =>
          IF Contains(alphabet1, ret.symbol1) /\ Contains(alphabet2, ret.symbol2)
          THEN ret.out = Ok(Cell(table, encode(alphabet1, ret.symbol1),
                                        encode(alphabet2, ret.symbol2)))
          ELSE ret.out = Raise("AlphabetError")

\* a lookup, failed or not, leaves the matrix as it is
LookupKeepsMatrix == [][M' = M]_vars

(***************************************************************************)
(* Properties of construction and transposition (specification Spec).      *)
(***************************************************************************)
\* the keys of the caller's pairing map, in the row-major order of the fill
KeyIndex(key) == encode(alphabet1, key[1]) * len(alphabet2) + encode(alphabet2, key[2])

\* a value that np.int32 cannot hold is met before the first missing key
OverflowBefore(missing) ==
    \E key \in Pairs(alphabet1, alphabet2) \ missing :
        /\ ~Representable32(Cell(table, encode(alphabet1, key[1]), encode(alphabet2, key[2])))
        /\ \A other \in missing : KeyIndex(key) < KeyIndex(other)

FromIncompleteMap == M # None /\ M.how.type = "dict" /\ M.how.missing # {}

ByPairingMap ==
    SubstitutionMatrix(alphabet1, alphabet2,
                       FromDict(PairingMap(alphabet1, alphabet2, table, {})), numpy, 2)

\* C4: the construction from an integer table T of the shape of the
\* alphabets and the construction from the pairing map of T both fail, or
\* both give equal matrices whose score at (i, j) is T[i, j]
C4_ConstructionEquivalence ==
    (/\ M # None
     /\ M.how.type = "ndarray"
     /\ table.shape = <<len(alphabet1), len(alphabet2)>>
     /\ issubdtype_integer(table.dtype))
    => /\ M.out.ok = ByPairingMap.ok
       /\ M.out.ok =>
            /\ __eq__(M.out.val, ByPairingMap.val)
            /\ \A c \in AllCodes(M.out.val) :
                  get_score_by_code(M.out.val, c[1], c[2]) = Ok(Cell(table, c[1], c[2]))

\* the scores the constructor is given
InputHasSentinel ==
    IF M.how.type = "ndarray" THEN HasSentinel(table)
    ELSE IF M.how.type = "dict"
         THEN \E key \in Pairs(alphabet1, alphabet2) \ M.how.missing :
                 Cell(table, encode(alphabet1, key[1]), encode(alphabet2, key[2]))
                     \in {int32(INT32_MAX), int32(INT32_MIN)}
    ELSE FALSE

\* C5: no matrix that was constructed, and no transpose of it, has an entry
\* INT32_MIN or INT32_MAX, and a construction from scores that contain one
\* of the two fails
C5_ScoreRange ==
    /\ \A X \in {M, Mt, Mtt} : IsOk(X) => ~HasSentinel(X.out.val.matrix)
    /\ (M # None /\ InputHasSentinel) => ~M.out.ok

\* C6: the transpose of a constructed matrix M exists, has the alphabets of
\* M swapped and the score of (b, a) that M has for (a, b), and its own
\* transpose is equal to M
C6_TransposeInvolution ==
    /\ (IsOk(M) /\ Mt # None) =>
          /\ Mt.out.ok
          /\ Mt.out.val.alph1 = M.out.val.alph2
          /\ Mt.out.val.alph2 = M.out.val.alph1
          /\ \A a \in 1..len(M.out.val.alph1) : \A b \in 1..len(M.out.val.alph2) :
                get_score(Mt.out.val, M.out.val.alph2[b], M.out.val.alph1[a])
                    = get_score(M.out.val, M.out.val.alph1[a], M.out.val.alph2[b])
    /\ (IsOk(M) /\ Mtt # None) => (Mtt.out.ok /\ __eq__(Mtt.out.val, M.out.val))

\* the table has an entry that np.int32 cannot hold
HasUnrepresentable(T) ==
    \E i \in 0..(T.shape[1] - 1) : \E j \in 0..(T.shape[2] - 1) : ~Representable32(Cell(T, i, j))

\* C12: a matrix constructed from an integer table T of any width has the
\* score T[i, j] at every (i, j), and the construction from a table with
\* an entry that is not a signed 32-bit integer does not succeed
C12_DensePreservesValues ==
    (M # None /\ M.how.type = "ndarray") =>
        /\ M.out.ok =>
              \A c \in AllCodes(M.out.val) :
                  get_score_by_code(M.out.val, c[1], c[2]) = Ok(Cell(table, c[1], c[2]))
        /\ (table.shape = <<len(alphabet1), len(alphabet2)>>
            /\ issubdtype_integer(table.dtype)
            /\ HasUnrepresentable(table)) => ~M.out.ok

\* a table whose entries all are signed 32-bit integers is kept as it is
DenseKeepsRepresentable ==
    (IsOk(M) /\ M.how.type = "ndarray" /\ ~HasUnrepresentable(table)) =>
        \A c \in AllCodes(M.out.val) :
            get_score_by_code(M.out.val, c[1], c[2]) = Ok(Cell(table, c[1], c[2]))

====
